---- MODULE Spec2Model ----
(***************************************************************************)
(* A model of dygraph/paddleseg/models/danet.py: the position and channel  *)
(* attention modules (PAM, CAM), the dual attention head (DAHead) and the  *)
(* network (DANet).                                                        *)
(*                                                                         *)
(* Two specifications share the module.                                    *)
(*   Spec      the life of one DANet object: construction step by step,    *)
(*             then forward calls.  Tensors are symbolic: a shape and a    *)
(*             term that records which layer, with which parameters, was   *)
(*             applied to what.  The framework's layers (Conv2d,           *)
(*             ConvBNReLU, Dropout2d, resize_bilinear) are uninterpreted.  *)
(*   SpecAttn  one PAM or CAM object on concrete tensors: the arithmetic   *)
(*             of the two forward functions, in exact (rational)           *)
(*             arithmetic.  float32 rounding and overflow are not          *)
(*             modelled.                                                   *)
(***************************************************************************)
EXTENDS Integers, Sequences, FiniteSets, TLC

VARIABLES
    args,         \* DANet.__init__'s arguments
    fs,           \* the paths that exist on the filesystem
    ckpt,         \* what the file at an existing pretrained path holds
    pc,           \* position in DANet.__init__ / the object's state
    head,         \* self.head, the DAHead object
    loaderCalls,  \* calls of utils.load_pretrained_model so far
    writes,       \* the parameter writes so far, oldest first
    lastCall,     \* the latest DANet.forward call: its inputs and result
    attn,         \* SpecAttn: the PAM or CAM object
    acall         \* SpecAttn: the object's latest forward call

vars == <<args, fs, ckpt, pc, head, loaderCalls, writes, lastCall, attn, acall>>

-----------------------------------------------------------------------------
(* Bounds of the model.                                                    *)

MaxClasses == 2
MaxN == 2
MaxContent == 2
MaxVal == 1

-----------------------------------------------------------------------------
(* Python helpers.                                                         *)

\* seq[i] for a 0-based index i.
Index(seq, i) == seq[i + 1]

\* seq[-1]
LastOf(seq) == seq[Len(seq)]

\* [f(e) for e in seq] is written [k \in 1..Len(seq) |-> ...] in place.

None == "None"

-----------------------------------------------------------------------------
(* Symbolic tensors: a shape (n, c, h, w) and a term.  A term names the    *)
(* operation that produced the tensor, the parameter values it used and    *)
(* the terms of its operands.  ErrT is the outcome of an operator the      *)
(* framework rejects (a shape mismatch): it propagates, as an exception    *)
(* does.                                                                   *)

ErrShape == <<>>

ErrT == [shape |-> ErrShape, term |-> [op |-> "error", p |-> <<>>, args |-> <<>>]]

IsErr(t) == t.shape = ErrShape

Term(op, p, targs) == [op |-> op, p |-> p, args |-> targs]

\* A backbone feature map: map number i (1-based) with content id v.
FeatureMap(i, v, shape) == [shape |-> shape, term |-> Term("feat", <<i, v>>, <<>>)]

-----------------------------------------------------------------------------
(* Shapes.  Each operator gives the result's shape, or ErrShape when the   *)
(* framework operator rejects its operands.                                *)

RECURSIVE Prod(_)
Prod(s) == IF s = <<>> THEN 1 ELSE Head(s) * Prod(Tail(s))

\* The product of the dimensions of target other than its -1.
RECURSIVE KnownProd(_)
KnownProd(target) ==
    IF target = <<>> THEN 1
    ELSE (IF Head(target) = -1 THEN 1 ELSE Head(target)) * KnownProd(Tail(target))

\* paddle.reshape(x, target): a -1 dimension is inferred from the element count.
ReshapeShape(s, target) ==
    LET total == Prod(s)
        known == KnownProd(target)
        minus == {k \in 1..Len(target) : target[k] = -1}
    IN  IF s = ErrShape \/ Cardinality(minus) > 1 THEN ErrShape
        ELSE IF minus = {}
             THEN (IF known = total THEN target ELSE ErrShape)
             ELSE IF known > 0 /\ total % known = 0
                  THEN [k \in 1..Len(target) |->
                           IF target[k] = -1 THEN total \div known ELSE target[k]]
                  ELSE ErrShape

\* paddle.transpose(x, perm), perm 0-based.
TransposeShape(s, perm) ==
    IF s = ErrShape \/ Len(s) # Len(perm) THEN ErrShape
    ELSE [k \in 1..Len(perm) |-> s[perm[k] + 1]]

\* paddle.bmm(a, b): (n, p, k) x (n, k, q) -> (n, p, q)
BmmShape(a, b) ==
    IF a = ErrShape \/ b = ErrShape THEN ErrShape
    ELSE IF Len(a) = 3 /\ Len(b) = 3 /\ a[1] = b[1] /\ a[3] = b[2]
         THEN <<a[1], a[2], b[3]>>
         ELSE ErrShape

\* An elementwise a + b of two tensors (no broadcasting is needed here).
AddShape(a, b) == IF a # ErrShape /\ a = b THEN a ELSE ErrShape

\* nn.Conv2d(cin, cout, k) with stride 1 and padding k // 2 on (n, c, h, w).
Conv2dShape(cin, cout, s) ==
    IF s # ErrShape /\ Len(s) = 4 /\ s[2] = cin /\ cout >= 1
    THEN <<s[1], cout, s[3], s[4]>>
    ELSE ErrShape

\* A variant of PAM.forward's shapes in which the query is left as
\* (n, c / 8, hw), not transposed.
PAM_shapes_untransposed(in_channels, s) ==
    IF s = ErrShape \/ Len(s) # 4
    THEN [query |-> ErrShape, key |-> ErrShape, sim |-> ErrShape,
          value |-> ErrShape, simT |-> ErrShape, bmm |-> ErrShape,
          feat |-> ErrShape, out |-> ErrShape]
    ELSE
    LET n == s[1]
        h == s[3]
        w == s[4]
        mid_channels == in_channels \div 8
        query == ReshapeShape(Conv2dShape(in_channels, mid_channels, s),
                              <<n, -1, h * w>>)
        key == ReshapeShape(Conv2dShape(in_channels, mid_channels, s),
                            <<n, -1, h * w>>)
        sim == BmmShape(query, key)
        value == ReshapeShape(Conv2dShape(in_channels, in_channels, s),
                              <<n, -1, h * w>>)
        simT == TransposeShape(sim, <<0, 2, 1>>)
        bmm == BmmShape(value, simT)
        feat == ReshapeShape(bmm, <<n, -1, h, w>>)
    IN  [query |-> query, key |-> key, sim |-> sim, value |-> value,
         simT |-> simT, bmm |-> bmm, feat |-> feat, out |-> AddShape(feat, s)]

\* The shapes of PAM.forward's tensors, in the order they are computed.
PAM_shapes(in_channels, s) ==
    IF s = ErrShape \/ Len(s) # 4
    THEN [query |-> ErrShape, key |-> ErrShape, sim |-> ErrShape,
          value |-> ErrShape, simT |-> ErrShape, bmm |-> ErrShape,
          feat |-> ErrShape, out |-> ErrShape]
    ELSE
    LET n == s[1]
        h == s[3]
        w == s[4]
        mid_channels == in_channels \div 8
        query == TransposeShape(
                     ReshapeShape(Conv2dShape(in_channels, mid_channels, s),
                                  <<n, -1, h * w>>),
                     <<0, 2, 1>>)
        key == ReshapeShape(Conv2dShape(in_channels, mid_channels, s),
                            <<n, -1, h * w>>)
        sim == BmmShape(query, key)
        value == ReshapeShape(Conv2dShape(in_channels, in_channels, s),
                              <<n, -1, h * w>>)
        simT == TransposeShape(sim, <<0, 2, 1>>)
        bmm == BmmShape(value, simT)
        feat == ReshapeShape(bmm, <<n, -1, h, w>>)
    IN  [query |-> query, key |-> key, sim |-> sim, value |-> value,
         simT |-> simT, bmm |-> bmm, feat |-> feat, out |-> AddShape(feat, s)]

\* The shapes of CAM.forward's tensors.
CAM_shapes(s) ==
    IF s = ErrShape \/ Len(s) # 4
    THEN [query |-> ErrShape, key |-> ErrShape, sim |-> ErrShape,
          value |-> ErrShape, bmm |-> ErrShape, feat |-> ErrShape,
          out |-> ErrShape]
    ELSE
    LET n == s[1]
        c == s[2]
        h == s[3]
        w == s[4]
        query == ReshapeShape(s, <<n, c, h * w>>)
        key == TransposeShape(ReshapeShape(s, <<n, c, h * w>>), <<0, 2, 1>>)
        sim == BmmShape(query, key)
        value == ReshapeShape(s, <<n, c, h * w>>)
        bmm == BmmShape(sim, value)
        feat == ReshapeShape(bmm, <<n, c, h, w>>)
    IN  [query |-> query, key |-> key, sim |-> sim, value |-> value,
         bmm |-> bmm, feat |-> feat, out |-> AddShape(feat, s)]

\* F.resize_bilinear(pred, out_shape): the spatial size becomes out_shape.
ResizeShape(s, hw) ==
    IF s # ErrShape /\ Len(s) = 4 THEN <<s[1], s[2], hw[1], hw[2]>> ELSE ErrShape

-----------------------------------------------------------------------------
(* Concrete tensors, for SpecAttn.  A tensor is a nested sequence, batch   *)
(* outermost.  Inputs, convolution weights and similarities are integers;  *)
(* what comes after a softmax is rational, a pair <<numerator,             *)
(* denominator>> with a positive denominator.                              *)

\* The tensor t with its elements computed once: TLC would otherwise compute
\* an element anew each time it is read.
Computed(t) == IF t = t THEN t ELSE t

Shape3(t) == <<Len(t), Len(t[1]), Len(t[1][1])>>

Shape4(x) == <<Len(x), Len(x[1]), Len(x[1][1]), Len(x[1][1][1])>>

\* The element at position k (0-based) of a tensor laid out row-major.
At3(t, k) ==
    LET s == Shape3(t)
    IN  t[(k \div (s[2] * s[3])) + 1][((k \div s[3]) % s[2]) + 1][(k % s[3]) + 1]

At4(x, k) ==
    LET s == Shape4(x)
    IN  x[(k \div (s[2] * s[3] * s[4])) + 1][((k \div (s[3] * s[4])) % s[2]) + 1]
         [((k \div s[4]) % s[3]) + 1][(k % s[4]) + 1]

\* paddle.reshape of a 4-d tensor to three dimensions: the row-major order
\* of the elements is kept.
Reshape4to3(x, target) ==
    LET s == ReshapeShape(Shape4(x), target)
    IN  Computed([a \in 1..s[1] |-> [b \in 1..s[2] |-> [c \in 1..s[3] |->
            At4(x, ((a - 1) * s[2] + (b - 1)) * s[3] + (c - 1))]]])

\* paddle.reshape of a 3-d tensor to four dimensions.
Reshape3to4(t, target) ==
    LET s == ReshapeShape(Shape3(t), target)
    IN  Computed([a \in 1..s[1] |-> [b \in 1..s[2] |-> [i \in 1..s[3] |->
            [j \in 1..s[4] |->
                At3(t, (((a - 1) * s[2] + (b - 1)) * s[3] + (i - 1)) * s[4] + (j - 1))]]]])

\* paddle.transpose(t, (0, 2, 1))
Transpose021(t) ==
    Computed([a \in 1..Len(t) |-> [c \in 1..Len(t[a][1]) |-> [b \in 1..Len(t[a]) |->
        t[a][b][c]]]])

RECURSIVE SumSeq(_)
SumSeq(q) == IF q = <<>> THEN 0 ELSE Head(q) + SumSeq(Tail(q))

RECURSIVE GCD(_, _)
GCD(a, b) == IF b = 0 THEN a ELSE GCD(b, a % b)

Abs(a) == IF a < 0 THEN -a ELSE a

\* A rational in lowest terms.
RNorm(r) ==
    LET g == GCD(Abs(r[1]), r[2])
    IN  <<r[1] \div g, r[2] \div g>>

RAdd(a, b) ==
    IF a[2] = b[2] THEN <<a[1] + b[1], a[2]>>
    ELSE RNorm(<<a[1] * b[2] + b[1] * a[2], a[2] * b[2]>>)

\* integer times rational
RScale(k, r) == <<k * r[1], r[2]>>

RLeq(a, b) == a[1] * b[2] <= b[1] * a[2]

RECURSIVE RSumSeq(_)
RSumSeq(q) == IF Len(q) = 1 THEN q[1] ELSE RAdd(Head(q), RSumSeq(Tail(q)))

ToRat4(x) ==
    [a \in 1..Len(x) |-> [b \in 1..Len(x[a]) |-> [i \in 1..Len(x[a][b]) |->
        [j \in 1..Len(x[a][b][i]) |-> <<x[a][b][i][j], 1>>]]]]

\* paddle.bmm of two integer tensors.
Bmm(A, B) ==
    Computed([n \in 1..Len(A) |-> [i \in 1..Len(A[n]) |-> [j \in 1..Len(B[n][1]) |->
        SumSeq([k \in 1..Len(B[n]) |-> A[n][i][k] * B[n][k][j]])]]])

\* paddle.bmm of an integer tensor and a rational one.
BmmIR(A, B) ==
    Computed([n \in 1..Len(A) |-> [i \in 1..Len(A[n]) |-> [j \in 1..Len(B[n][1]) |->
        RSumSeq([k \in 1..Len(B[n]) |-> RScale(A[n][i][k], B[n][k][j])])]]])

\* paddle.bmm of a rational tensor and an integer one.
BmmRI(A, B) ==
    Computed([n \in 1..Len(A) |-> [i \in 1..Len(A[n]) |-> [j \in 1..Len(B[n][1]) |->
        RSumSeq([k \in 1..Len(B[n]) |-> RScale(B[n][k][j], A[n][i][k])])]]])

RECURSIVE MinSeq(_)
MinSeq(q) ==
    IF Len(q) = 1 THEN q[1]
    ELSE LET m == MinSeq(Tail(q)) IN IF Head(q) < m THEN Head(q) ELSE m

RECURSIVE MaxSeq(_)
MaxSeq(q) ==
    IF Len(q) = 1 THEN q[1]
    ELSE LET m == MaxSeq(Tail(q)) IN IF Head(q) > m THEN Head(q) ELSE m

\* The exponential, to the base 2 so that its values on integers are
\* integers: positive, strictly increasing, Exp(a + b) = Exp(a) * Exp(b).
RECURSIVE Exp(_)
Exp(k) == IF k = 0 THEN 1 ELSE 2 * Exp(k - 1)

\* The softmax of one row: Exp(s_i) / sum_j Exp(s_j), numerator and
\* denominator both divided by Exp(min s).
SoftmaxRow(row) ==
    LET m == MinSeq(row)
        e == Computed([i \in 1..Len(row) |-> Exp(row[i] - m)])
        z == SumSeq(e)
    IN  Computed([i \in 1..Len(row) |-> <<e[i], z>>])

\* F.softmax(t, axis=-1) of a 3-d tensor.
Softmax(t) ==
    Computed([n \in 1..Len(t) |-> [i \in 1..Len(t[n]) |-> SoftmaxRow(t[n][i])]])

\* A variant that normalises over axis 1, the columns.
Softmax_axis1(t) == Transpose021(Softmax(Transpose021(t)))

\* PAM.forward: sim = F.softmax(sim, axis=-1)
PAM_softmax(sim) == Softmax(sim)

\* A variant with the conventional stabilisation, value minus row maximum.
CAM_stabilize_conventional(sim) ==
    Computed([n \in 1..Len(sim) |-> [i \in 1..Len(sim[n]) |->
        [j \in 1..Len(sim[n][i]) |-> sim[n][i][j] - MaxSeq(sim[n][i])]]])

\* CAM.forward: sim = paddle.max(sim, axis=-1, keepdim=True).expand_as(sim) - sim
CAM_stabilize(sim) ==
    Computed([n \in 1..Len(sim) |-> [i \in 1..Len(sim[n]) |->
        [j \in 1..Len(sim[n][i]) |-> MaxSeq(sim[n][i]) - sim[n][i][j]]]])

\* nn.Conv2d(cin, cout, 1, 1) with weight conv.w (cout x cin) and bias conv.b.
Conv1x1(conv, x) ==
    Computed([n \in 1..Len(x) |-> [m \in 1..Len(conv.w) |-> [i \in 1..Len(x[n][1]) |->
        [j \in 1..Len(x[n][1][i]) |->
            SumSeq([c \in 1..Len(x[n]) |-> conv.w[m][c] * x[n][c][i][j]])
                + conv.b[m]]]]])

\* A variant that adds the attended features whatever the gate.
Residual_ungated(gamma, feat, x) ==
    Computed([n \in 1..Len(x) |-> [c \in 1..Len(x[n]) |-> [i \in 1..Len(x[n][c]) |->
        [j \in 1..Len(x[n][c][i]) |->
            RNorm(RAdd(feat[n][c][i][j], <<x[n][c][i][j], 1>>))]]]])

\* out = self.gamma * feat + x
Residual(gamma, feat, x) ==
    Computed([n \in 1..Len(x) |-> [c \in 1..Len(x[n]) |-> [i \in 1..Len(x[n][c]) |->
        [j \in 1..Len(x[n][c][i]) |->
            RNorm(RAdd(RScale(gamma, feat[n][c][i][j]), <<x[n][c][i][j], 1>>))]]]])

\* No PAM or CAM object yet.
NoAttn == [kind |-> "none", phase |-> "none", in_channels |-> 0,
           query_conv |-> <<>>, key_conv |-> <<>>, value_conv |-> <<>>,
           gamma |-> 0, updated |-> FALSE]

NoACall ==
    [status |-> "none", kind |-> "none", in_channels |-> 0, gamma |-> 0,
     x |-> <<>>, shapes |-> <<>>, sim_raw |-> <<>>, sim_shift |-> <<>>,
     sim |-> <<>>, feat |-> <<>>, out |-> <<>>]

\* PAM.forward(x) of a PAM object pam.
PAM_forward(pam, x) ==
    LET s == Shape4(x)
        n == s[1]
        h == s[3]
        w == s[4]
        shapes == PAM_shapes(pam.in_channels, s)
        query == Transpose021(
                     Reshape4to3(Conv1x1(pam.query_conv, x), <<n, -1, h * w>>))
        key == Reshape4to3(Conv1x1(pam.key_conv, x), <<n, -1, h * w>>)
        sim_raw == Bmm(query, key)
        sim == PAM_softmax(sim_raw)
        value == Reshape4to3(Conv1x1(pam.value_conv, x), <<n, -1, h * w>>)
        simT == Transpose021(sim)
        feat == Reshape3to4(BmmIR(value, simT), <<n, -1, h, w>>)
        out == Residual(pam.gamma, feat, x)
    IN  IF shapes.out = ErrShape
        THEN [NoACall EXCEPT !.status = "raised", !.kind = "PAM",
                             !.in_channels = pam.in_channels,
                             !.gamma = pam.gamma, !.x = x, !.shapes = shapes]
        ELSE [status |-> "returned", kind |-> "PAM",
              in_channels |-> pam.in_channels, gamma |-> pam.gamma,
              x |-> x, shapes |-> shapes, sim_raw |-> sim_raw, sim_shift |-> <<>>,
              sim |-> sim, feat |-> feat, out |-> out]

\* CAM.forward(x) of a CAM object cam.
CAM_forward(cam, x) ==
    LET s == Shape4(x)
        n == s[1]
        c == s[2]
        h == s[3]
        w == s[4]
        shapes == CAM_shapes(s)
        query == Reshape4to3(x, <<n, c, h * w>>)
        key == Transpose021(Reshape4to3(x, <<n, c, h * w>>))
        sim_raw == Bmm(query, key)
        sim_shift == CAM_stabilize(sim_raw)
        sim == Softmax(sim_shift)
        value == Reshape4to3(x, <<n, c, h * w>>)
        feat == Reshape3to4(BmmRI(sim, value), <<n, c, h, w>>)
        out == Residual(cam.gamma, feat, x)
    IN  IF shapes.out = ErrShape
        THEN [NoACall EXCEPT !.status = "raised", !.kind = "CAM",
                             !.gamma = cam.gamma, !.x = x, !.shapes = shapes]
        ELSE [status |-> "returned", kind |-> "CAM", in_channels |-> 0,
              gamma |-> cam.gamma, x |-> x, shapes |-> shapes,
              sim_raw |-> sim_raw, sim_shift |-> sim_shift, sim |-> sim,
              feat |-> feat, out |-> out]

-----------------------------------------------------------------------------
(* Parameters.  A parameter tensor is modelled by one integer, its value.  *)
(* The framework's random initialisers and a checkpoint's content are      *)
(* draws from ParamSamples: every layer alike, every layer different, and  *)
(* the twin layers of the two branches alike with the three heads          *)
(* different.                                                              *)

\* The Conv2d sublayers of a DAHead (those inside ConvBNReLU and PAM too).
Layers ==
    {"channel_conv", "position_conv", "pam_query_conv", "pam_key_conv",
     "pam_value_conv", "conv1", "conv2", "aux_head_pam", "aux_head_cam",
     "cls_head"}

\* The ConvBNReLU sublayers: each holds a batch norm next to its convolution.
BNLayers == {"channel_conv", "position_conv", "conv1", "conv2"}

Weights(cc, pcv, q, k, v, c1, c2, ap, ac, cls) ==
    [l \in Layers |->
        CASE l = "channel_conv" -> cc
          [] l = "position_conv" -> pcv
          [] l = "pam_query_conv" -> q
          [] l = "pam_key_conv" -> k
          [] l = "pam_value_conv" -> v
          [] l = "conv1" -> c1
          [] l = "conv2" -> c2
          [] l = "aux_head_pam" -> ap
          [] l = "aux_head_cam" -> ac
          [] OTHER -> cls]

ParamSamples ==
    { Weights(1, 1, 1, 1, 1, 1, 1, 1, 1, 1),
      Weights(1, 2, 3, 4, 5, 6, 7, 8, 9, 10),
      Weights(1, 1, 2, 3, 4, 5, 5, 6, 7, 8) }

\* A batch norm's (weight, bias): constant_init(weight, 1.0), constant_init(bias, 0.0),
\* which are the framework's defaults as well.
BNInit == [l \in BNLayers |-> <<1, 0>>]

BNSamples == {BNInit, [l \in BNLayers |-> <<2, 1>>]}

\* PAM.__init__ and CAM.__init__: default_initializer=nn.initializer.Constant(0)
GammaInit == 0

GammaVals == {0, 1}

\* What a checkpoint file may hold: a value for every parameter of the network.
Checkpoints ==
    { [w |-> Weights(1, 2, 3, 4, 5, 6, 7, 8, 9, 10), bn |-> BNInit,
       gamma_pam |-> 0, gamma_cam |-> 0],
      [w |-> Weights(1, 1, 2, 3, 4, 5, 5, 6, 7, 8), bn |-> [l \in BNLayers |-> <<2, 1>>],
       gamma_pam |-> 1, gamma_cam |-> 1],
      [w |-> Weights(2, 2, 2, 2, 2, 2, 2, 2, 2, 2), bn |-> [l \in BNLayers |-> <<2, 1>>],
       gamma_pam |-> 0, gamma_cam |-> 1],
      [w |-> Weights(1, 1, 1, 1, 1, 1, 1, 1, 1, 1), bn |-> BNInit,
       gamma_pam |-> 1, gamma_cam |-> 0] }

NoCkpt == [w |-> [l \in Layers |-> 0], bn |-> [l \in BNLayers |-> <<0, 0>>],
           gamma_pam |-> 0, gamma_cam |-> 0]

\* self.head before DAHead.__init__ has run.
NoHead ==
    [built |-> FALSE, in_channels |-> 0, inter_channels |-> 0,
     pam_in_channels |-> 0, num_classes |-> 0,
     w |-> [l \in Layers |-> 0], bn |-> [l \in BNLayers |-> <<0, 0>>],
     gamma_pam |-> 0, gamma_cam |-> 0]

-----------------------------------------------------------------------------
(* The layers on symbolic tensors.                                         *)

\* nn.Conv2d(cin, cout, k) with weight value wv.
Conv2d(wv, cin, cout, k, t) ==
    LET s == Conv2dShape(cin, cout, t.shape)
    IN  IF s = ErrShape THEN ErrT
        ELSE [shape |-> s, term |-> Term("Conv2d", <<wv, cin, cout, k>>, <<t.term>>)]

\* ConvBNReLU(cin, cout, k): convolution, batch norm, ReLU.
ConvBNReLU(wv, bnv, cin, cout, k, t) ==
    LET s == Conv2dShape(cin, cout, t.shape)
    IN  IF s = ErrShape THEN ErrT
        ELSE [shape |-> s,
              term |-> Term("ConvBNReLU", <<wv, bnv[1], bnv[2], cin, cout, k>>,
                            <<t.term>>)]

\* nn.Dropout2d(0.1): mask 0 is the layer in evaluation mode (nothing is
\* dropped); another mask names the channels a training-mode call drops.
Dropout2d(mask, t) ==
    IF IsErr(t) \/ mask = 0 THEN t
    ELSE [shape |-> t.shape, term |-> Term("Dropout2d", <<mask>>, <<t.term>>)]

\* out = self.gamma * feat + x on terms: with gamma = 0 the sum is x.
Gate(gamma, feat, x) ==
    IF gamma = 0 THEN x ELSE Term("gate", <<gamma>>, <<feat, x>>)

\* self.pam(t)
PAM(hd, t) ==
    LET sh == PAM_shapes(hd.pam_in_channels, t.shape)
        feat == Term("pam_feat",
                     <<hd.w["pam_query_conv"], hd.w["pam_key_conv"],
                       hd.w["pam_value_conv"]>>,
                     <<t.term>>)
    IN  IF sh.out = ErrShape THEN ErrT
        ELSE [shape |-> sh.out, term |-> Gate(hd.gamma_pam, feat, t.term)]

\* self.cam(t)
CAM(hd, t) ==
    LET sh == CAM_shapes(t.shape)
        feat == Term("cam_feat", <<>>, <<t.term>>)
    IN  IF sh.out = ErrShape THEN ErrT
        ELSE [shape |-> sh.out, term |-> Gate(hd.gamma_cam, feat, t.term)]

\* a + b
Add(a, b) ==
    IF AddShape(a.shape, b.shape) = ErrShape THEN ErrT
    ELSE [shape |-> a.shape, term |-> Term("add", <<>>, <<a.term, b.term>>)]

\* A variant that leaves the logit map at the feature map's resolution.
resize_bilinear_skipped(t, hw) == t

\* F.resize_bilinear(pred, hw)
resize_bilinear(t, hw) ==
    IF IsErr(t) THEN ErrT
    ELSE [shape |-> ResizeShape(t.shape, hw),
          term |-> Term("resize_bilinear", hw, <<t.term>>)]

-----------------------------------------------------------------------------
(* DAHead.forward                                                          *)

\* One of the three heads, nn.Sequential(Dropout2d(0.1), Conv2d(inter, classes, 1)).
HeadSeq(hd, l, mask, t) ==
    Conv2d(hd.w[l], hd.inter_channels, hd.num_classes, 1, Dropout2d(mask, t))

\* channel_feats: channel_conv, cam, conv1
ChannelFeats(hd, feats) ==
    ConvBNReLU(hd.w["conv1"], hd.bn["conv1"], hd.inter_channels, hd.inter_channels, 3,
        CAM(hd,
            ConvBNReLU(hd.w["channel_conv"], hd.bn["channel_conv"],
                       hd.in_channels, hd.inter_channels, 3, feats)))

\* position_feats: position_conv, pam, conv2
PositionFeats(hd, feats) ==
    ConvBNReLU(hd.w["conv2"], hd.bn["conv2"], hd.inter_channels, hd.inter_channels, 3,
        PAM(hd,
            ConvBNReLU(hd.w["position_conv"], hd.bn["position_conv"],
                       hd.in_channels, hd.inter_channels, 3, feats)))

\* A variant that reads the first selected map, feat_list[0].
SelectFeats_first(feat_list) == feat_list[1]

\* feats = feat_list[-1]
SelectFeats(feat_list) == LastOf(feat_list)

\* A variant in which the position branch has its own auxiliary head.
PamLogitHead_own == "aux_head_pam"

\* The head DAHead.forward applies to position_feats for pam_logit.
PamLogitHead == "aux_head_cam"

\* A variant that returns the channel-auxiliary logit first.
DAHead_forward_reordered(hd, feat_list, masks) ==
    LET feats == SelectFeats(feat_list)
        channel_feats == ChannelFeats(hd, feats)
        position_feats == PositionFeats(hd, feats)
        feats_sum == Add(position_feats, channel_feats)
        cam_logit == HeadSeq(hd, "aux_head_cam", masks[1], channel_feats)
        pam_logit == HeadSeq(hd, PamLogitHead, masks[2], position_feats)
        logit == HeadSeq(hd, "cls_head", masks[3], feats_sum)
    IN  <<cam_logit, logit, pam_logit>>

\* masks: the dropout masks of the three head calls, in the order of the calls
\* (aux_head_cam on channel_feats, aux_head_cam on position_feats, cls_head).
DAHead_forward(hd, feat_list, masks) ==
    LET feats == SelectFeats(feat_list)
        channel_feats == ChannelFeats(hd, feats)
        position_feats == PositionFeats(hd, feats)
        feats_sum == Add(position_feats, channel_feats)
        cam_logit == HeadSeq(hd, "aux_head_cam", masks[1], channel_feats)
        pam_logit == HeadSeq(hd, PamLogitHead, masks[2], position_feats)
        logit == HeadSeq(hd, "cls_head", masks[3], feats_sum)
    IN  <<logit, cam_logit, pam_logit>>

\* A list of tensors one of which an operator rejected: the call raised.
Raised(list) == \E k \in 1..Len(list) : IsErr(list[k])

-----------------------------------------------------------------------------
(* The inputs: constructor arguments, the filesystem, forward's operands.  *)

Paths == {"model.pdparams", "missing.pdparams"}

\* A backbone (its feat_channels) with a backbone_indices tuple valid for it.
\* Every channel count is large enough for inter_channels // 8 >= 1.
NetConfigs ==
    {[feat_channels |-> <<64, 128>>, backbone_indices |-> i] :
        i \in {<<0, 1>>, <<1>>, <<1, 0>>}}
    \cup
    {[feat_channels |-> <<36, 64, 64>>, backbone_indices |-> i] :
        i \in {<<0, 1, 2>>, <<2, 1>>, <<1, 0>>}}

\* The input image's (H, W) with the spatial size of the backbone's last map;
\* map i of L is 2^(L-i) times as large as the last one.
Geoms ==
    {[image |-> <<8, 8>>, last |-> <<1, 1>>],
     [image |-> <<4, 8>>, last |-> <<2, 3>>]}

DropMasks == {<<0, 0, 0>>, <<1, 1, 1>>, <<1, 2, 1>>}

RECURSIVE Pow2(_)
Pow2(k) == IF k = 0 THEN 1 ELSE 2 * Pow2(k - 1)

\* self.backbone(x): one feature map per entry of feat_channels.  extra = 1 is
\* a backbone whose maps have one channel more than it declares.
BackboneOutput(feat_channels, n, geom, content, extra) ==
    [i \in 1..Len(feat_channels) |->
        FeatureMap(i, content[i],
                   <<n, feat_channels[i] + extra,
                     geom.last[1] * Pow2(Len(feat_channels) - i),
                     geom.last[2] * Pow2(Len(feat_channels) - i)>>)]

NoCall == [status |-> "none", x |-> <<>>, feats |-> <<>>, sel |-> <<>>,
           masks |-> <<>>, head_out |-> <<>>, preds |-> <<>>]

-----------------------------------------------------------------------------
(* Construction: DANet.__init__ in its three steps.                        *)

Init ==
    /\ \E nc \in 1..MaxClasses, net \in NetConfigs, pre \in {None} \cup Paths :
          args = [num_classes |-> nc, feat_channels |-> net.feat_channels,
                  backbone_indices |-> net.backbone_indices, pretrained |-> pre]
    /\ fs = {"model.pdparams"}
    /\ IF args.pretrained \in fs THEN ckpt \in Checkpoints ELSE ckpt = NoCkpt
    /\ pc = "new"
    /\ head = NoHead
    /\ loaderCalls = 0
    /\ writes = <<>>
    /\ lastCall = NoCall
    /\ attn = NoAttn
    /\ acall = NoACall

\* DANet.__init__ up to DAHead.__init__'s call of init_weight: the layers are
\* created with the framework's default initial values, the gates with 0.
DAHead_init ==
    /\ pc = "new"
    /\ LET in_channels == [k \in 1..Len(args.backbone_indices) |->
                              Index(args.feat_channels, args.backbone_indices[k])]
           last_channels == LastOf(in_channels)
           inter_channels == last_channels \div 4
       IN  \E w0 \in ParamSamples :
             /\ head' = [built |-> TRUE,
                         in_channels |-> last_channels,
                         inter_channels |-> inter_channels,
                         pam_in_channels |-> inter_channels,
                         num_classes |-> args.num_classes,
                         w |-> w0, bn |-> BNInit,
                         gamma_pam |-> GammaInit, gamma_cam |-> GammaInit]
             /\ writes' = Append(writes, "default_init")
    /\ pc' = "head_built"
    /\ UNCHANGED <<args, fs, ckpt, loaderCalls, lastCall, attn, acall>>

\* DAHead.init_weight: normal_init of every Conv2d weight, constant_init of
\* every batch norm.  The gates are neither.
DAHead_init_weight ==
    /\ pc = "head_built"
    /\ \E w1 \in ParamSamples :
          head' = [head EXCEPT !.w = w1, !.bn = BNInit]
    /\ writes' = Append(writes, "init_weight")
    /\ pc' = "head_inited"
    /\ UNCHANGED <<args, fs, ckpt, loaderCalls, lastCall, attn, acall>>

\* utils.load_pretrained_model(self, pretrained): the checkpoint's values
\* replace the parameters in place.
load_pretrained_model(hd, content) ==
    [hd EXCEPT !.w = content.w, !.bn = content.bn,
               !.gamma_pam = content.gamma_pam, !.gamma_cam = content.gamma_cam]

\* os.path.exists(path)
PathExists(path) == path \in fs

\* A variant without the os.path.exists check: the loader is given any path.
DANet_init_weight_unchecked ==
    /\ pc = "head_inited"
    /\ IF args.pretrained # None
       THEN /\ head' = load_pretrained_model(head, ckpt)
            /\ loaderCalls' = loaderCalls + 1
            /\ writes' = Append(writes, "load_pretrained_model")
            /\ pc' = "ready"
       ELSE /\ pc' = "ready"
            /\ UNCHANGED <<head, loaderCalls, writes>>
    /\ UNCHANGED <<args, fs, ckpt, lastCall, attn, acall>>

\* DANet.init_weight(pretrained)
DANet_init_weight ==
    /\ pc = "head_inited"
    /\ IF args.pretrained # None
       THEN IF PathExists(args.pretrained)
            THEN /\ head' = load_pretrained_model(head, ckpt)
                 /\ loaderCalls' = loaderCalls + 1
                 /\ writes' = Append(writes, "load_pretrained_model")
                 /\ pc' = "ready"
            ELSE /\ pc' = "failed"
                 /\ UNCHANGED <<head, loaderCalls, writes>>
       ELSE /\ pc' = "ready"
            /\ UNCHANGED <<head, loaderCalls, writes>>
    /\ UNCHANGED <<args, fs, ckpt, lastCall, attn, acall>>

-----------------------------------------------------------------------------
(* DANet.forward                                                           *)

DANet_forward_result(hd, indices, x, feats, masks) ==
    LET sel == [k \in 1..Len(indices) |-> Index(feats, indices[k])]
        head_out == DAHead_forward(hd, sel, masks)
        preds == [k \in 1..Len(head_out) |->
                     resize_bilinear(head_out[k], <<x[3], x[4]>>)]
    IN  IF Raised(preds)
        THEN [status |-> "raised", x |-> x, feats |-> feats, sel |-> sel,
              masks |-> masks, head_out |-> <<>>, preds |-> <<>>]
        ELSE [status |-> "returned", x |-> x, feats |-> feats, sel |-> sel,
              masks |-> masks, head_out |-> head_out, preds |-> preds]

\* A variant that loads the pretrained weights on a forward call as well.
DANet_forward_loading ==
    /\ pc = "ready"
    /\ lastCall.status = "none"
    /\ \E n \in 1..MaxN, geom \in Geoms, masks \in DropMasks, extra \in {0, 1},
          content \in [1..Len(args.feat_channels) -> 1..MaxContent] :
          lastCall' = DANet_forward_result(
                          head, args.backbone_indices,
                          <<n, 3, geom.image[1], geom.image[2]>>,
                          BackboneOutput(args.feat_channels, n, geom, content, extra),
                          masks)
    /\ loaderCalls' = loaderCalls + (IF args.pretrained # None THEN 1 ELSE 0)
    /\ UNCHANGED <<args, fs, ckpt, pc, head, writes, attn, acall>>

\* A call starts once the caller has let go of the previous call's result.
DANet_forward ==
    /\ pc = "ready"
    /\ lastCall.status = "none"
    /\ \E n \in 1..MaxN, geom \in Geoms, masks \in DropMasks, extra \in {0, 1},
          content \in [1..Len(args.feat_channels) -> 1..MaxContent] :
          lastCall' = DANet_forward_result(
                          head, args.backbone_indices,
                          <<n, 3, geom.image[1], geom.image[2]>>,
                          BackboneOutput(args.feat_channels, n, geom, content, extra),
                          masks)
    /\ UNCHANGED <<args, fs, ckpt, pc, head, loaderCalls, writes, attn, acall>>

\* The caller lets go of the tensors a call gave it: forward keeps nothing
\* of a call, so the next one starts from the same object.
ReleasePreds ==
    /\ lastCall.status # "none"
    /\ lastCall' = NoCall
    /\ UNCHANGED <<args, fs, ckpt, pc, head, loaderCalls, writes, attn, acall>>

Next ==
    \/ DAHead_init
    \/ DAHead_init_weight
    \/ DANet_init_weight
    \/ DANet_forward
    \/ ReleasePreds

Spec == Init /\ [][Next]_vars

-----------------------------------------------------------------------------
(* SpecAttn: one attention module, from its construction on.               *)

\* A 1x1 convolution whose output channel m reads input channel m + shift
\* (cyclically) with weight scale, and has bias bias.
ConvPattern(scale, shift, bias, cout, cin) ==
    [w |-> [m \in 1..cout |-> [c \in 1..cin |->
               IF c = ((m - 1 + shift) % cin) + 1 THEN scale ELSE 0]],
     b |-> [m \in 1..cout |-> bias]]

\* Draws of PAM's three convolutions: query_conv and key_conv have
\* mid_channels = in_channels // 8 output channels, value_conv in_channels.
PAMConvSamples(in_channels) ==
    LET mid_channels == in_channels \div 8
    IN  { [query_conv |-> ConvPattern(1, 0, 0, mid_channels, in_channels),
           key_conv |-> ConvPattern(1, 0, 0, mid_channels, in_channels),
           value_conv |-> ConvPattern(1, 0, 0, in_channels, in_channels)],
          [query_conv |-> ConvPattern(-1, 1, 1, mid_channels, in_channels),
           key_conv |-> ConvPattern(1, 0, 0, mid_channels, in_channels),
           value_conv |-> ConvPattern(1, 1, 1, in_channels, in_channels)],
          [query_conv |-> ConvPattern(1, 0, 1, mid_channels, in_channels),
           key_conv |-> ConvPattern(-1, 1, 0, mid_channels, in_channels),
           value_conv |-> ConvPattern(-1, 0, 0, in_channels, in_channels)] }

\* The channel counts PAM is built for, and those of CAM's inputs.
PAMChannels == {8, 16}

CAMChannels == {2, 3, 8}

\* (n, h, w) of the inputs.
AttnDims == {<<1, 1, 1>>, <<1, 1, 2>>, <<1, 2, 2>>, <<2, 2, 1>>, <<1, 2, 3>>}

\* The inputs: a tensor of shape (n, c, h, w) that is 0 but for the value a
\* at (1, 1, 1, 1) and the value b at position p.
SpikeTensor(n, c, h, w, a, p, b) ==
    [nn \in 1..n |-> [cc \in 1..c |-> [i \in 1..h |-> [j \in 1..w |->
        IF <<nn, cc, i, j>> = p THEN b
        ELSE IF <<nn, cc, i, j>> = <<1, 1, 1, 1>> THEN a ELSE 0]]]]

Inputs(c) ==
    { SpikeTensor(d[1], c, d[2], d[3], a, <<pn, pc2, pi, pj>>, b) :
        d \in AttnDims, a \in -MaxVal..MaxVal, b \in -MaxVal..MaxVal,
        pn \in 1..2, pc2 \in 1..2, pi \in 1..2, pj \in 1..3 }

InitAttn ==
    /\ args = [num_classes |-> 0, feat_channels |-> <<>>,
               backbone_indices |-> <<>>, pretrained |-> None]
    /\ fs = {}
    /\ ckpt = NoCkpt
    /\ pc = "none"
    /\ head = NoHead
    /\ loaderCalls = 0
    /\ writes = <<>>
    /\ lastCall = NoCall
    /\ attn = NoAttn
    /\ acall = NoACall

lifeVars == <<args, fs, ckpt, pc, head, loaderCalls, writes, lastCall>>

\* PAM.__init__(in_channels)
PAM_init ==
    /\ attn.kind = "none"
    /\ acall.status = "none"
    /\ \E in_channels \in PAMChannels :
          \E convs \in PAMConvSamples(in_channels) :
             attn' = [kind |-> "PAM", phase |-> "constructed",
                      in_channels |-> in_channels,
                      query_conv |-> convs.query_conv,
                      key_conv |-> convs.key_conv,
                      value_conv |-> convs.value_conv,
                      gamma |-> GammaInit, updated |-> FALSE]
    /\ UNCHANGED acall
    /\ UNCHANGED lifeVars

\* CAM.__init__()
CAM_init ==
    /\ attn.kind = "none"
    /\ acall.status = "none"
    /\ attn' = [NoAttn EXCEPT !.kind = "CAM", !.phase = "constructed",
                              !.gamma = GammaInit]
    /\ UNCHANGED acall
    /\ UNCHANGED lifeVars

\* DAHead.init_weight as it acts on the module: normal_init of the weight of
\* each Conv2d sublayer (PAM has three, CAM none); the gate is not touched.
Attn_init_weight ==
    /\ attn.phase = "constructed"
    /\ acall.status = "none"
    /\ IF attn.kind = "PAM"
       THEN \E convs \in PAMConvSamples(attn.in_channels) :
               attn' = [attn EXCEPT !.phase = "inited",
                                    !.query_conv = convs.query_conv,
                                    !.key_conv = convs.key_conv,
                                    !.value_conv = convs.value_conv]
       ELSE attn' = [attn EXCEPT !.phase = "inited"]
    /\ UNCHANGED acall
    /\ UNCHANGED lifeVars

\* A write from outside the module, by the optimizer or by the pretrained
\* loader: any value for the gate and for the convolutions.
Attn_update ==
    /\ attn.phase = "inited"
    /\ acall.status = "none"
    /\ \E g \in GammaVals :
          IF attn.kind = "PAM"
          THEN \E convs \in PAMConvSamples(attn.in_channels) :
                  attn' = [attn EXCEPT !.gamma = g, !.updated = TRUE,
                                       !.query_conv = convs.query_conv,
                                       !.key_conv = convs.key_conv,
                                       !.value_conv = convs.value_conv]
          ELSE attn' = [attn EXCEPT !.gamma = g, !.updated = TRUE]
    /\ UNCHANGED acall
    /\ UNCHANGED lifeVars

\* self.pam(x) or self.cam(x)
Attn_forward ==
    /\ attn.kind # "none"
    /\ acall.status = "none"
    /\ IF attn.kind = "PAM"
       THEN \E c \in PAMChannels : \E x \in Inputs(c) :
               acall' = PAM_forward(attn, x)
       ELSE \E c \in CAMChannels : \E x \in Inputs(c) :
               acall' = CAM_forward(attn, x)
    /\ UNCHANGED attn
    /\ UNCHANGED lifeVars

\* The caller lets go of the tensors the call gave it.
ReleaseOut ==
    /\ acall.status # "none"
    /\ acall' = NoACall
    /\ UNCHANGED attn
    /\ UNCHANGED lifeVars

NextAttn ==
    \/ PAM_init
    \/ CAM_init
    \/ Attn_init_weight
    \/ Attn_update
    \/ Attn_forward
    \/ ReleaseOut

SpecAttn == InitAttn /\ [][NextAttn]_vars

-----------------------------------------------------------------------------
(* Properties of Spec.                                                     *)

ConstructionPhases == {"new", "head_built", "head_inited"}

\* The selected map DAHead.forward reads in the latest call.
LastSelected == Index(lastCall.feats, LastOf(args.backbone_indices))

C2_OutputShapes ==
    (/\ lastCall.status # "none"
     /\ LastSelected.shape[1] = lastCall.x[1]
     /\ LastSelected.shape[2] = Index(args.feat_channels, LastOf(args.backbone_indices)))
    => /\ lastCall.status = "returned"
       /\ Len(lastCall.preds) = 3
       /\ \A k \in 1..3 :
             lastCall.preds[k].shape =
                 <<lastCall.x[1], args.num_classes, lastCall.x[3], lastCall.x[4]>>

C2_Witness ==
    /\ lastCall.status = "returned"
    /\ Len(lastCall.sel) = 2
    /\ <<LastSelected.shape[3], LastSelected.shape[4]>> = <<2, 3>>
    /\ <<lastCall.x[3], lastCall.x[4]>> = <<4, 8>>
    /\ lastCall.sel[1].shape[3] # LastSelected.shape[3]

\* C4: the position-auxiliary logit is computed with aux_head_cam's weight, as
\* the channel-auxiliary logit is; the result of a call is the same whatever
\* aux_head_pam's weight is; and with equal branch features and equal dropout
\* masks the two auxiliary logits are equal.
C4_AuxHeadShared ==
    lastCall.status = "returned" =>
        LET cf == ChannelFeats(head, LastSelected)
            pf == PositionFeats(head, LastSelected)
        IN  /\ lastCall.head_out[2].term.p[1] = head.w["aux_head_cam"]
            /\ lastCall.head_out[3].term.p[1] = head.w["aux_head_cam"]
            /\ lastCall.head_out[3] =
                   HeadSeq(head, "aux_head_cam", lastCall.masks[2], pf)
            /\ \A v \in 0..11 :
                   DAHead_forward([head EXCEPT !.w["aux_head_pam"] = v],
                                  lastCall.sel, lastCall.masks) = lastCall.head_out
            /\ (cf = pf /\ lastCall.masks[1] = lastCall.masks[2]) =>
                   lastCall.head_out[2] = lastCall.head_out[3]

C4_Witness ==
    /\ lastCall.status = "returned"
    /\ ChannelFeats(head, LastSelected) = PositionFeats(head, LastSelected)
    /\ lastCall.masks[1] = lastCall.masks[2]
    /\ head.w["aux_head_pam"] # head.w["aux_head_cam"]

\* The selected maps with every map but the last replaced by another tensor.
OtherMaps(sel, v) ==
    [k \in 1..Len(sel) |->
        IF k = Len(sel) THEN sel[k] ELSE FeatureMap(0, v, <<1, 1, 1, 1>>)]

\* C6: DANet.forward hands the head the selected maps in index order; the
\* head's result depends on the last of them alone; and the head is built for
\* the channel count of the last selected index, inter_channels a quarter of it.
C6_OnlyLastMapConsumed ==
    /\ head.built =>
          /\ head.in_channels =
                 Index(args.feat_channels, LastOf(args.backbone_indices))
          /\ head.inter_channels = head.in_channels \div 4
    /\ lastCall.status # "none" =>
          /\ lastCall.sel = [k \in 1..Len(args.backbone_indices) |->
                                Index(lastCall.feats, args.backbone_indices[k])]
          /\ \A v \in 1..2 :
                LET alt == DAHead_forward(head, OtherMaps(lastCall.sel, v),
                                          lastCall.masks)
                IN  IF lastCall.status = "returned"
                    THEN alt = lastCall.head_out
                    ELSE Raised(alt)

C6_Witness ==
    /\ lastCall.status = "returned"
    /\ Len(lastCall.sel) = 3
    /\ lastCall.sel[1].term # lastCall.sel[3].term
    /\ lastCall.sel[1].shape # lastCall.sel[3].shape

\* C7: DAHead.forward returns the main logit (cls_head on the sum of the
\* position and channel branches), then the channel-auxiliary logit, then the
\* position-auxiliary logit; DANet.forward returns their resized versions in
\* the same order.
C7_OutputOrder ==
    lastCall.status = "returned" =>
        LET cf == ChannelFeats(head, LastSelected)
            pf == PositionFeats(head, LastSelected)
        IN  /\ Len(lastCall.head_out) = 3
            /\ lastCall.head_out[1] =
                   HeadSeq(head, "cls_head", lastCall.masks[3], Add(pf, cf))
            /\ lastCall.head_out[2] =
                   Conv2d(head.w["aux_head_cam"], head.inter_channels,
                          head.num_classes, 1, Dropout2d(lastCall.masks[1], cf))
            /\ lastCall.head_out[3].term.args[1] =
                   Dropout2d(lastCall.masks[2], pf).term
            /\ Len(lastCall.preds) = 3
            /\ \A k \in 1..3 :
                  /\ lastCall.preds[k].term.op = "resize_bilinear"
                  /\ lastCall.preds[k].term.args = <<lastCall.head_out[k].term>>

C7_Witness ==
    /\ lastCall.status = "returned"
    /\ head.w["cls_head"] # head.w["aux_head_cam"]
    /\ lastCall.head_out[2].term # lastCall.head_out[3].term
    /\ lastCall.head_out[1].term # lastCall.head_out[2].term

\* C10: the head's init_weight has completed before DANet.init_weight runs; a
\* ready object has seen the loader exactly once if pretrained names an existing
\* path, and then the load is the last write and the parameters are the
\* checkpoint's; it has seen the loader never if pretrained is None, and then
\* the parameters are the initialised ones; construction with None never
\* fails; forward calls change none of this.
C10_ConstructionOrder ==
    /\ \A k \in 1..Len(writes) :
          writes[k] = "load_pretrained_model" =>
              /\ k = Len(writes)
              /\ k > 1
              /\ writes[k - 1] = "init_weight"
    /\ pc \in ConstructionPhases \cup {"failed"} => loaderCalls = 0
    /\ args.pretrained = None => pc # "failed"
    /\ pc = "ready" =>
          IF args.pretrained = None
          THEN /\ loaderCalls = 0
               /\ writes = <<"default_init", "init_weight">>
               /\ head.w \in ParamSamples
               /\ head.bn = BNInit
               /\ head.gamma_pam = GammaInit /\ head.gamma_cam = GammaInit
          ELSE /\ loaderCalls = 1
               /\ writes = <<"default_init", "init_weight", "load_pretrained_model">>
               /\ head.w = ckpt.w /\ head.bn = ckpt.bn
               /\ head.gamma_pam = ckpt.gamma_pam
               /\ head.gamma_cam = ckpt.gamma_cam

C10_Witness ==
    /\ pc = "ready"
    /\ loaderCalls = 1
    /\ lastCall.status = "returned"
    /\ head.gamma_pam = 1
    /\ head.bn # BNInit

-----------------------------------------------------------------------------
(* Properties of SpecAttn.  Tensor values are exact rationals: what is     *)
(* checked is the arithmetic the code writes down, not float32 rounding,   *)
(* overflow or NaN.                                                        *)

\* The positions of a 4-d tensor and the rows of a 3-d one.
Positions4(x) ==
    { <<n, c, i, j>> : n \in 1..Len(x), c \in 1..Len(x[1]),
                       i \in 1..Len(x[1][1]), j \in 1..Len(x[1][1][1]) }

Rows3(t) == { <<n, i>> : n \in 1..Len(t), i \in 1..Len(t[1]) }

C5_ShapePreservation ==
    (/\ acall.status # "none"
     /\ Shape4(acall.x)[2] % 8 = 0
     /\ acall.kind = "PAM" => acall.in_channels = Shape4(acall.x)[2])
    =>
    LET s == Shape4(acall.x)
        N == s[1]
        C == s[2]
        HW == s[3] * s[4]
        sh == acall.shapes
    IN  /\ acall.status = "returned"
        /\ sh.out = s
        /\ sh.feat = s
        /\ Shape4(acall.out) = s
        /\ Shape4(acall.feat) = s
        /\ Shape3(acall.sim) = sh.sim
        /\ sh.bmm = <<N, C, HW>>
        /\ sh.value = <<N, C, HW>>
        /\ IF acall.kind = "PAM"
           THEN /\ sh.query = <<N, HW, C \div 8>>
                /\ sh.key = <<N, C \div 8, HW>>
                /\ sh.sim = <<N, HW, HW>>
                /\ sh.simT = <<N, HW, HW>>
           ELSE /\ sh.query = <<N, C, HW>>
                /\ sh.key = <<N, HW, C>>
                /\ sh.sim = <<N, C, C>>

\* A PAM with in_channels = 16 called on (2, 16, 2, 1): batch, channel
\* and position counts all differ.
C5_Witness ==
    /\ acall.status = "returned"
    /\ acall.kind = "PAM"
    /\ acall.in_channels = 16
    /\ Shape4(acall.x) = <<2, 16, 2, 1>>
    /\ Shape4(acall.out) = <<2, 16, 2, 1>>

\* C8: in CAM.forward an entry s of a row of the raw similarity becomes
\* (row maximum - s) before the softmax: it is >= 0, it is 0 where s is the
\* row's maximum, that entry has the least weight of its row, and a larger
\* raw value never has the larger weight.
C8_ChannelStabilization ==
    acall.status = "returned" /\ acall.kind = "CAM" =>
       \A r \in Rows3(acall.sim_raw) :
          LET raw == acall.sim_raw[r[1]][r[2]]
              shift == acall.sim_shift[r[1]][r[2]]
              weight == acall.sim[r[1]][r[2]]
              cols == 1..Len(raw)
          IN  /\ Len(shift) = Len(raw) /\ Len(weight) = Len(raw)
              /\ \A j \in cols :
                    /\ shift[j] = MaxSeq(raw) - raw[j]
                    /\ shift[j] >= 0
                    /\ raw[j] = MaxSeq(raw) =>
                          /\ shift[j] = 0
                          /\ \A k \in cols : RLeq(weight[j], weight[k])
              /\ \A j, k \in cols :
                    raw[j] >= raw[k] => RLeq(weight[j], weight[k])

\* A CAM call with a row of three different raw values: their weights are
\* strictly in the reverse order.
C8_Witness ==
    /\ acall.status = "returned"
    /\ acall.kind = "CAM"
    /\ \E r \in Rows3(acall.sim_raw) :
          LET raw == acall.sim_raw[r[1]][r[2]]
              weight == acall.sim[r[1]][r[2]]
          IN  \E j, k, l \in 1..Len(raw) :
                 /\ raw[j] > raw[k]
                 /\ raw[k] > raw[l]
                 /\ ~RLeq(weight[k], weight[j])
                 /\ ~RLeq(weight[l], weight[k])

\* C9: the similarity PAM.forward builds is (N, HW, HW), and after the
\* softmax, before the transpose, the entries of every row are >= 0 and
\* sum to 1.
C9_RowStochastic ==
    acall.status = "returned" /\ acall.kind = "PAM" =>
       LET s == Shape4(acall.x)
           HW == s[3] * s[4]
       IN  /\ Shape3(acall.sim_raw) = <<s[1], HW, HW>>
           /\ Shape3(acall.sim) = <<s[1], HW, HW>>
           /\ \A r \in Rows3(acall.sim) :
                 LET row == acall.sim[r[1]][r[2]]
                 IN  /\ \A j \in 1..Len(row) : row[j][1] >= 0 /\ row[j][2] > 0
                     /\ RNorm(RSumSeq(row)) = <<1, 1>>

\* A PAM call on several positions where a row of the attention has
\* unequal entries and the raw similarity is not symmetric.
C9_Witness ==
    /\ acall.status = "returned"
    /\ acall.kind = "PAM"
    /\ \E r \in Rows3(acall.sim) :
          LET row == acall.sim[r[1]][r[2]]
          IN  \E j, k \in 1..Len(row) : row[j][1] # row[k][1]
    /\ \E n \in 1..Len(acall.sim_raw) :
          \E i, j \in 1..Len(acall.sim_raw[n]) :
             acall.sim_raw[n][i][j] # acall.sim_raw[n][j][i]

====
